---- MODULE Spec2Model ----
(***************************************************************************)
(* Token / session lifecycle of the job-portal backend.                    *)
(*                                                                         *)
(*   backend/app/core/security.py          SecurityService (JWT, bcrypt)   *)
(*   backend/app/services/token_service.py TokenService (user_sessions)    *)
(*   backend/app/services/auth_service.py  AuthService (login, reset, OTP) *)
(*   backend/app/models/user.py            User, UserSession, Token        *)
(*                                                                         *)
(* Time is counted in ticks.  Rows of user_sessions and tokens keep their  *)
(* timestamps at tick resolution; the exp claim of a JWT is a NumericDate  *)
(* in whole seconds, SecTicks ticks each.  Every handler runs in one       *)
(* request transaction that the boundary commits (get_db); a handler is    *)
(* one action, except Refresh, which is split at its await on the session  *)
(* lookup so that two Refresh requests interleave.                         *)
(***************************************************************************)
EXTENDS Integers, Sequences, FiniteSets, TLC

\* ----------------------------------------------------------------- bounds
MaxTime == 3
MaxSessions == 2
MaxTokens == 1
SecTicks == 2

\* ------------------------------------------------------ program constants
\* settings.REFRESH_TOKEN_EXPIRE_DAYS, settings.ACCESS_TOKEN_EXPIRE_MINUTES,
\* the one hour of a password-reset token and the ten minutes of an OTP,
\* scaled to ticks (only their order matters: OTP <= reset <= refresh).
RefreshTTL == 2
AccessTTL == 1
ResetTTL == 1
OtpTTL == 1

\* A NULL column.
NULL == -1

Users == {"u1", "u2"}
Procs == {"p1", "p2"}
Passwords == {"pw1", "pw2"}

\* Accounts that hold both roles (a second user_roles row, written out of
\* band: register_user refuses an email that has an account).
DualUsers == {"u3", "u4"}
UserTypes == {"CANDIDATE", "EMPLOYER"}

\* user_roles: the rows of each account in the order the load of User.roles
\* returns them (the relationship states no order).  An account of Users
\* holds the one role it registered with.
Roles(u) ==
    IF u = "u1" THEN <<"CANDIDATE">>
    ELSE IF u = "u3" THEN <<"CANDIDATE", "EMPLOYER">>
    ELSE IF u = "u4" THEN <<"EMPLOYER", "CANDIDATE">>
    ELSE <<"EMPLOYER">>

\* user.roles[0].role, the role _fetch_user_claims and user_to_summary take.
RoleOf(u) == Roles(u)[1]

\* select(User).join(UserRole).where(UserRole.role == role) finds the account
HasRole(u, role) == \E i \in DOMAIN Roles(u) : Roles(u)[i] = role

VARIABLES
    now,        \* the wall clock (datetime.utcnow()), in ticks
    users,      \* users table with its profile row: user id -> record
    sessions,   \* user_sessions table: sequence of rows, in insertion order
    tokens,     \* tokens table (OTPs and password-reset tokens)
    uuids,      \* number of uuid4 values drawn so far (each draw is fresh)
    issued,     \* token pairs the boundary has returned to callers
    rq,         \* Refresh requests in flight: process -> record
    last,       \* the last handler that completed, with its outcome
    swept       \* history: the jti of every row that belonged to the user of a
                \* revoke_all_user_tokens call when it ran

vars == <<now, users, sessions, tokens, uuids, issued, rq, last, swept>>

\* ------------------------------------------------------------- outcomes
Ok == [kind |-> "ok", msg |-> "ok"]
AuthenticationError(m) == [kind |-> "AuthenticationError", msg |-> m]
AppException(m) == [kind |-> "AppException", msg |-> m]
ConflictError(m) == [kind |-> "ConflictError", msg |-> m]

\* The exception classes of core/exceptions.py: the failure kinds the
\* application names.
AppExceptions ==
    {"AppException", "AuthenticationError", "ForbiddenError", "ValidationError",
     "ConflictError", "NotFoundError", "FileUploadError"}

\* -------------------------------------------------------- SecurityService
hash_password(p) == <<"bcrypt_sha256", p>>
\* users.password_hash of an account without password (OAuth only)
NoHash == << >>
verify_password(plain, hashed) == hashed = hash_password(plain)

\* jwt.encode writes exp as a NumericDate: whole seconds, the fraction dropped.
NumericDate(t) == t \div SecTicks

create_access_token(data, t) ==
    [type |-> "access", sub |-> data.sub, claims |-> data.claims, jti |-> NULL,
     exp |-> NumericDate(t + AccessTTL), sig |-> TRUE]

create_refresh_token(data, jti, t) ==
    [type |-> "refresh", sub |-> data.sub, claims |-> data.claims, jti |-> jti,
     exp |-> NumericDate(t + RefreshTTL), sig |-> TRUE]

\* Variant of jwt.decode below with verification switched off.
jwt_decode_unverified(token, t) == [err |-> FALSE, payload |-> token]

\* jwt.decode: the signature, then exp against the clock in whole seconds
\* (expired when exp < now); JWTError is reported as TRUE in .err.
jwt_decode(token, t) ==
    IF ~token.sig \/ token.exp < NumericDate(t)
    THEN [err |-> TRUE, payload |-> token]
    ELSE [err |-> FALSE, payload |-> token]

verify_refresh_token(token, t) ==
    LET d == jwt_decode(token, t) IN
    IF d.err THEN AuthenticationError("Invalid refresh token")
    ELSE IF d.payload.type # "refresh" THEN AuthenticationError("Invalid token type")
    ELSE Ok

\* Variants of verify_access_token below: without the check of the type tag,
\* and with a look at the owner's sessions.
verify_access_token_any_type(token, t) ==
    LET d == jwt_decode(token, t) IN
    IF d.err THEN AuthenticationError("Invalid access token") ELSE Ok

verify_access_token_with_session(token, t) ==
    LET d == jwt_decode(token, t) IN
    IF d.err THEN AuthenticationError("Invalid access token")
    ELSE IF d.payload.type # "access" THEN AuthenticationError("Invalid token type")
    ELSE IF \A i \in DOMAIN sessions :
                sessions[i].user_id = token.sub => sessions[i].revoked_at # NULL
    THEN AuthenticationError("Invalid access token")
    ELSE Ok

verify_access_token(token, t) ==
    LET d == jwt_decode(token, t) IN
    IF d.err THEN AuthenticationError("Invalid access token")
    ELSE IF d.payload.type # "access" THEN AuthenticationError("Invalid token type")
    ELSE Ok

\* ------------------------------------------------------ user_sessions SQL
SessionRow(id, user_id, jti, t) ==
    [id |-> id, user_id |-> user_id, jti |-> jti, created_at |-> t,
     expires_at |-> t + RefreshTTL, revoked_at |-> NULL, last_used_at |-> NULL]

\* select(UserSession).where(UserSession.jti == jti): the matching row indexes
SelectByJti(rows, jti) == {i \in DOMAIN rows : rows[i].jti = jti}

\* Variant of the update below that deletes the row instead.
DeleteByJti(rows, jti, t) == SelectSeq(rows, LAMBDA r : r.jti # jti)

\* update(UserSession).where(UserSession.jti == jti).values(revoked_at=t)
UpdateRevokedByJti(rows, jti, t) ==
    [i \in DOMAIN rows |->
        IF rows[i].jti = jti THEN [rows[i] EXCEPT !.revoked_at = t] ELSE rows[i]]

\* Variants of the update below: without its where clause, and matching no row.
UpdateRevokedEveryUser(rows, u, t) ==
    [i \in DOMAIN rows |-> [rows[i] EXCEPT !.revoked_at = t]]

UpdateRevokedNoRow(rows, u, t) == rows

\* update(UserSession).where(UserSession.user_id == u).values(revoked_at=t)
UpdateRevokedByUser(rows, u, t) ==
    [i \in DOMAIN rows |->
        IF rows[i].user_id = u THEN [rows[i] EXCEPT !.revoked_at = t] ELSE rows[i]]

JtisOf(rows, u) == {rows[i].jti : i \in {k \in DOMAIN rows : rows[k].user_id = u}}

\* A session is valid iff revoked_at IS NULL AND expires_at > now (spec 3).
Valid(r, t) == r.revoked_at = NULL /\ r.expires_at > t

\* ------------------------------------------------------------ TokenService
\* Variant of _fetch_user_claims that copies the claims of a token issued to
\* the user earlier, when there is one.
fetch_copied_claims(u) ==
    LET earlier == {pr \in issued : pr.refresh.sub = u} IN
    IF u \notin DOMAIN users THEN [res |-> AuthenticationError("User not found")]
    ELSE IF users[u].status \in {"SUSPENDED", "DEACTIVATED"}
    THEN [res |-> AuthenticationError(IF users[u].status = "SUSPENDED"
                                      THEN "Account is suspended"
                                      ELSE "Account is deactivated")]
    ELSE [res |-> Ok,
          claims |-> IF earlier # {}
                     THEN (CHOOSE pr \in earlier : TRUE).refresh.claims
                     ELSE [email_verified |-> users[u].email_verified,
                           status |-> users[u].status,
                           user_type |-> RoleOf(u),
                           profile_complete |-> users[u].profile_complete]]

\* _fetch_user_claims: the claims read from the user's current rows, or the
\* AuthenticationError it raises.
fetch_user_claims(u) ==
    IF u \notin DOMAIN users THEN [res |-> AuthenticationError("User not found")]
    ELSE IF users[u].status \in {"SUSPENDED", "DEACTIVATED"}
    THEN [res |-> AuthenticationError(IF users[u].status = "SUSPENDED"
                                      THEN "Account is suspended"
                                      ELSE "Account is deactivated")]
    ELSE [res |-> Ok,
          claims |-> [email_verified |-> users[u].email_verified,
                      status |-> users[u].status,
                      user_type |-> RoleOf(u),
                      profile_complete |-> users[u].profile_complete]]

\* Python binds a call's arguments before the body runs: a call that leaves a
\* parameter without default unbound raises TypeError at the call.
create_token_pair_params == {"user_id", "user_type"}
login_user_call == {"user_id", "user_type", "db", "user_agent", "ip_address"}
refresh_internal_call == {"user_id", "db", "user_agent", "ip_address"}
Binds(call) == create_token_pair_params \subseteq call

\* _create_token_pair_internal: claims, both tokens, the session row; the
\* result is the outcome, the pair and the table after db.add + flush.
create_token_pair_internal(u, rows, n, t) ==
    LET fc == fetch_user_claims(u) IN
    IF fc.res.kind # "ok" THEN [res |-> fc.res, rows |-> rows, uuids |-> n]
    ELSE LET data == [sub |-> u, claims |-> fc.claims]
             jti == n + 1
             id == n + 2
         IN [res |-> Ok,
             pair |-> [access |-> create_access_token(data, t),
                       refresh |-> create_refresh_token(data, jti, t)],
             rows |-> Append(rows, SessionRow(id, u, jti, t)),
             uuids |-> n + 2]

\* ------------------------------------------------------------- tokens SQL
TokenRow(u, tok, type, t, ttl) ==
    [user_id |-> u, token |-> tok, type |-> type, created_at |-> t,
     expires_at |-> t + ttl, used_at |-> NULL]

\* the loop "for old_token in old_tokens: old_token.used_at = now"
InvalidateOld(rows, u, type, t) ==
    [i \in DOMAIN rows |->
        IF rows[i].user_id = u /\ rows[i].type = type /\ rows[i].used_at = NULL
        THEN [rows[i] EXCEPT !.used_at = t] ELSE rows[i]]

\* Variant of _create_and_send_verification_otp below that leaves the old
\* OTPs alone.
create_verification_otp_keep_old(rows, u, otp, t) ==
    Append(rows, TokenRow(u, otp, "email_verification", t, OtpTTL))

\* _create_and_send_verification_otp
create_verification_otp(rows, u, otp, t) ==
    Append(InvalidateOld(rows, u, "email_verification", t),
           TokenRow(u, otp, "email_verification", t, OtpTTL))

\* ------------------------------------------------------------ the handlers
NoUser == "nobody"
NoClaims == [email_verified |-> FALSE, status |-> "none", user_type |-> "none",
             profile_complete |-> FALSE]
NoToken == [type |-> "none", sub |-> NoUser, claims |-> NoClaims, jti |-> NULL,
            exp |-> NULL, sig |-> FALSE]
False == [kind |-> "False", msg |-> "False"]
Done(op, u, jti, res) ==
    [op |-> op, user |-> u, jti |-> jti, res |-> res, raced |-> FALSE]

\* Variant of the checks below without the checks of the account's status.
login_check_no_status(email, password, user_type) ==
    IF email \notin DOMAIN users \/ ~HasRole(email, user_type)
    THEN AuthenticationError("Invalid credentials")
    ELSE IF users[email].password_hash = NoHash
    THEN AuthenticationError("This account uses social login. Please use the appropriate login method.")
    ELSE IF ~verify_password(password, users[email].password_hash)
    THEN AuthenticationError("Invalid credentials")
    ELSE Ok

\* AuthService.login_user up to the point where it raises, as an outcome.
login_check(email, password, user_type) ==
    IF email \notin DOMAIN users \/ ~HasRole(email, user_type)
    THEN AuthenticationError("Invalid credentials")
    ELSE IF users[email].password_hash = NoHash
    THEN AuthenticationError("This account uses social login. Please use the appropriate login method.")
    ELSE IF ~verify_password(password, users[email].password_hash)
    THEN AuthenticationError("Invalid credentials")
    ELSE IF users[email].status = "SUSPENDED"
    THEN AuthenticationError("Your account has been suspended. Please contact support.")
    ELSE IF users[email].status = "DEACTIVATED"
    THEN AuthenticationError("Your account has been deactivated.")
    ELSE Ok

\* POST /login: login_user, then the boundary commits and returns the pair.
\* The tokens table holds at most max rows.
LoginWithin(email, password, user_type, max) ==
    LET chk == login_check(email, password, user_type)
        tp == create_token_pair_internal(email, sessions, uuids, now)
    IN
    IF chk.kind # "ok"
    THEN /\ last' = Done("login", email, NULL, chk)
         /\ UNCHANGED <<now, users, sessions, tokens, uuids, issued, rq, swept>>
    ELSE IF tp.res.kind # "ok"
    THEN \* create_token_pair raised (_fetch_user_claims): the endpoint answers
         \* with the error, nothing was written
         /\ Binds(login_user_call)
         /\ last' = Done("login", email, NULL, tp.res)
         /\ UNCHANGED <<now, users, sessions, tokens, uuids, issued, rq, swept>>
    ELSE /\ Len(sessions) < MaxSessions
         /\ users[email].email_verified \/ Len(tokens) < max
         /\ Binds(login_user_call)
         /\ sessions' = tp.rows
         /\ tokens' = IF users[email].email_verified THEN tokens
                      ELSE create_verification_otp(tokens, email, tp.uuids + 1, now)
         /\ uuids' = IF users[email].email_verified THEN tp.uuids ELSE tp.uuids + 1
         /\ issued' = issued \cup {tp.pair}
         /\ last' = Done("login", email, tp.pair.refresh.jti, Ok)
         /\ UNCHANGED <<now, users, rq, swept>>

Login(email, password, user_type) == LoginWithin(email, password, user_type, MaxTokens)

\* Variants of the checks below: without the revoked_at check, and without the
\* expires_at check.
session_checks_no_revoked(rows, found, t) ==
    IF found = {} THEN AuthenticationError("Refresh token session not found")
    ELSE LET row == rows[CHOOSE i \in found : TRUE] IN
         IF row.expires_at < t THEN AuthenticationError("Refresh token expired")
         ELSE Ok

session_checks_no_expiry(rows, found, t) ==
    IF found = {} THEN AuthenticationError("Refresh token session not found")
    ELSE LET row == rows[CHOOSE i \in found : TRUE] IN
         IF row.revoked_at # NULL THEN AuthenticationError("Refresh token revoked")
         ELSE Ok

\* _refresh_internal, lines 192-199: the checks on the row the lookup found
\* (found is the set of matching row indexes).
session_checks(rows, found, t) ==
    IF found = {} THEN AuthenticationError("Refresh token session not found")
    ELSE LET row == rows[CHOOSE i \in found : TRUE] IN
         IF row.revoked_at # NULL THEN AuthenticationError("Refresh token revoked")
         ELSE IF row.expires_at < t THEN AuthenticationError("Refresh token expired")
         ELSE Ok

\* update(UserSession).where(UserSession.id == id).values(revoked_at=t)
UpdateRevokedById(rows, id, t) ==
    [i \in DOMAIN rows |->
        IF rows[i].id = id THEN [rows[i] EXCEPT !.revoked_at = t] ELSE rows[i]]

\* Variant of _refresh_internal below in which the new session row is
\* inserted, the request then fails, and the boundary commits the insert.
refresh_internal_partial(tok, rows, n, t) ==
    LET found == SelectByJti(rows, tok.jti)
        chk == IF found = {} THEN AuthenticationError("Refresh token session not found")
               ELSE IF rows[CHOOSE i \in found : TRUE].revoked_at # NULL
               THEN AuthenticationError("Refresh token revoked")
               ELSE IF rows[CHOOSE i \in found : TRUE].expires_at < t
               THEN AuthenticationError("Refresh token expired")
               ELSE Ok
    IN
    IF chk.kind # "ok" THEN [res |-> chk, rows |-> rows, uuids |-> n, pair |-> {}]
    ELSE [res |-> AuthenticationError("Failed to refresh token"),
          rows |-> Append(rows, [id |-> n + 2, user_id |-> tok.sub, jti |-> n + 1,
                                 created_at |-> t, expires_at |-> t + RefreshTTL,
                                 revoked_at |-> NULL, last_used_at |-> NULL]),
          uuids |-> n + 2, pair |-> {}]

\* _refresh_internal from the lookup's result on: the checks, the call of
\* create_token_pair (a TypeError is caught by "except Exception" and becomes
\* "Failed to refresh token"), the revocation of the old row, the commit.
refresh_internal(tok, rows, n, t) ==
    LET found == SelectByJti(rows, tok.jti)
        chk == session_checks(rows, found, t)
    IN
    IF chk.kind # "ok" THEN [res |-> chk, rows |-> rows, uuids |-> n, pair |-> {}]
    ELSE IF ~Binds(refresh_internal_call)
    THEN [res |-> AuthenticationError("Failed to refresh token"),
          rows |-> rows, uuids |-> n, pair |-> {}]
    ELSE LET old == rows[CHOOSE i \in found : TRUE]
             tp == create_token_pair_internal(old.user_id, rows, n, t)
         IN IF tp.res.kind # "ok"
            THEN [res |-> tp.res, rows |-> rows, uuids |-> n, pair |-> {}]
            ELSE [res |-> Ok, rows |-> UpdateRevokedById(tp.rows, old.id, t),
                  uuids |-> tp.uuids, pair |-> {tp.pair}]

Idle == [pc |-> "idle", tok |-> NoToken, raced |-> FALSE]

\* ---------------------------------------------------------------- actions
Account(status, verified) ==
    [status |-> status, email_verified |-> verified, profile_complete |-> FALSE,
     password_hash |-> hash_password("pw1")]

\* An account without password: register_user with a provider other than
\* EMAIL stores no hash.
OAuthAccount == [Account("ACTIVE", TRUE) EXCEPT !.password_hash = NoHash]

InitOver(emails, accounts) ==
    /\ now = 0
    /\ users \in [emails -> accounts]
    /\ sessions = << >>
    /\ tokens = << >>
    /\ uuids = 0
    /\ issued = {}
    /\ rq = [p \in Procs |-> Idle]
    /\ last = Done("init", NoUser, NULL, Ok)
    /\ swept = {}

InitWith(accounts) == InitOver(Users, accounts)

\* Accounts whose email is verified (login sends them no OTP).
Init == InitWith({Account("ACTIVE", TRUE)})

Tick ==
    /\ now < MaxTime
    /\ now' = now + 1
    /\ UNCHANGED <<users, sessions, tokens, uuids, issued, rq, last, swept>>

\* The refresh tokens the boundary has returned to callers.
RefreshTokens == {pr.refresh : pr \in issued}

\* POST /refresh, first half: verify_refresh_token and the payload check, then
\* the await on the session lookup.
RefreshBegin(p, tok) ==
    LET v == verify_refresh_token(tok, now)
        res == IF v.kind # "ok" THEN v
               ELSE IF tok.jti = NULL \/ tok.sub = NoUser
               THEN AuthenticationError("Invalid refresh token payload")
               ELSE Ok
        race == {q \in Procs \ {p} : rq[q].pc = "lookup" /\ rq[q].tok = tok}
    IN
    /\ rq[p].pc = "idle"
    /\ IF res.kind # "ok"
       THEN /\ last' = Done("refresh", tok.sub, tok.jti, res)
            /\ UNCHANGED rq
       ELSE /\ rq' = [q \in Procs |->
                        IF q = p THEN [pc |-> "lookup", tok |-> tok, raced |-> race # {}]
                        ELSE IF q \in race THEN [rq[q] EXCEPT !.raced = TRUE]
                        ELSE rq[q]]
            /\ UNCHANGED last
    /\ UNCHANGED <<now, users, sessions, tokens, uuids, issued, swept>>

\* POST /refresh, second half: the lookup returns and the handler runs to its
\* end (the rotation's writes and the commit included).
RefreshLookup(p) ==
    LET r == refresh_internal(rq[p].tok, sessions, uuids, now) IN
    /\ rq[p].pc = "lookup"
    /\ r.res.kind = "ok" => Len(sessions) < MaxSessions
    /\ sessions' = r.rows
    /\ uuids' = r.uuids
    /\ issued' = issued \cup r.pair
    /\ rq' = [rq EXCEPT ![p] = Idle]
    /\ last' = [Done("refresh", rq[p].tok.sub, rq[p].tok.jti, r.res)
                  EXCEPT !.raced = rq[p].raced]
    /\ UNCHANGED <<now, users, tokens, swept>>

\* TokenService.revoke_token (POST /logout with the refresh cookie).
RevokeToken(tok) ==
    LET v == verify_refresh_token(tok, now) IN
    /\ sessions' = IF v.kind = "ok" /\ tok.jti # NULL
                   THEN UpdateRevokedByJti(sessions, tok.jti, now) ELSE sessions
    /\ last' = Done("revoke_token", tok.sub, tok.jti,
                    IF v.kind = "ok" /\ tok.jti # NULL THEN Ok ELSE False)
    /\ UNCHANGED <<now, users, tokens, uuids, issued, rq, swept>>

\* TokenService.revoke_all_user_tokens
RevokeAll(u) ==
    /\ sessions' = UpdateRevokedByUser(sessions, u, now)
    /\ swept' = swept \cup JtisOf(sessions, u)
    /\ last' = Done("revoke_all", u, NULL, Ok)
    /\ UNCHANGED <<now, users, tokens, uuids, issued, rq>>

\* AuthService.forgot_password: always the same answer; for a known account
\* with a password the unused reset tokens are invalidated and a new one is
\* stored.  The tokens table holds at most max rows.
ForgotPasswordWithin(email, max) ==
    /\ IF email \notin DOMAIN users \/ users[email].password_hash = NoHash
       THEN UNCHANGED <<tokens, uuids>>
       ELSE /\ Len(tokens) < max
            /\ tokens' = Append(InvalidateOld(tokens, email, "password_reset", now),
                                TokenRow(email, uuids + 1, "password_reset", now, ResetTTL))
            /\ uuids' = uuids + 1
    /\ last' = Done("forgot_password", email, NULL, Ok)
    /\ UNCHANGED <<now, users, sessions, issued, rq, swept>>

ForgotPassword(email) == ForgotPasswordWithin(email, MaxTokens)

\* Variant of step 7 below that leaves the sessions alone.
reset_keep_sessions(rows, u, t) == rows

\* reset_password step 7: revoke_all_user_tokens(user_id, db) on the sessions
reset_revoke_sessions(rows, u, t) == UpdateRevokedByUser(rows, u, t)

\* Variant of the checks below without the check of used_at.
reset_check_reusable(found, t) ==
    IF found = {} THEN AppException("Invalid reset token")
    ELSE LET row == tokens[CHOOSE i \in found : TRUE] IN
         IF row.expires_at < t THEN AppException("Reset token has expired")
         ELSE IF row.user_id \notin DOMAIN users THEN AppException("User not found")
         ELSE Ok

\* reset_password steps 1-3: the token row (index set found) and its checks
reset_check(found, t) ==
    IF found = {} THEN AppException("Invalid reset token")
    ELSE LET row == tokens[CHOOSE i \in found : TRUE] IN
         IF row.expires_at < t THEN AppException("Reset token has expired")
         ELSE IF row.used_at # NULL THEN AppException("Reset token has already been used")
         ELSE IF row.user_id \notin DOMAIN users THEN AppException("User not found")
         ELSE Ok

\* AuthService.reset_password, then the boundary's commit.
ResetPassword(token, new_password) ==
    LET found == {i \in DOMAIN tokens :
                    tokens[i].token = token /\ tokens[i].type = "password_reset"}
        chk == reset_check(found, now)
    IN
    IF chk.kind # "ok"
    THEN /\ last' = Done("reset_password", NoUser, NULL, chk)
         /\ UNCHANGED <<now, users, sessions, tokens, uuids, issued, rq, swept>>
    ELSE LET i == CHOOSE k \in found : TRUE
             u == tokens[i].user_id
         IN /\ users' = [users EXCEPT ![u].password_hash = hash_password(new_password)]
            /\ tokens' = [tokens EXCEPT ![i].used_at = now]
            /\ sessions' = reset_revoke_sessions(sessions, u, now)
            /\ swept' = swept \cup JtisOf(sessions, u)
            /\ last' = Done("reset_password", u, NULL, Ok)
            /\ UNCHANGED <<now, uuids, issued, rq>>

\* AuthService.verify_email_with_otp
VerifyEmail(u, otp) ==
    LET found == {i \in DOMAIN tokens :
                    /\ tokens[i].user_id = u /\ tokens[i].token = otp
                    /\ tokens[i].type = "email_verification" /\ tokens[i].used_at = NULL}
        res == IF u \notin DOMAIN users THEN AppException("Invalid verification code")
               ELSE IF users[u].email_verified
               THEN AppException("Email is already verified")
               ELSE IF found = {} THEN AppException("Invalid verification code")
               ELSE IF tokens[CHOOSE i \in found : TRUE].expires_at < now
               THEN AppException("Verification code has expired")
               ELSE Ok
    IN
    /\ IF res.kind # "ok" THEN UNCHANGED <<users, tokens>>
       ELSE /\ users' = [users EXCEPT ![u].email_verified = TRUE, ![u].status = "ACTIVE"]
            /\ tokens' = [tokens EXCEPT ![CHOOSE i \in found : TRUE].used_at = now]
    /\ last' = Done("verify_email", u, NULL, res)
    /\ UNCHANGED <<now, sessions, uuids, issued, rq, swept>>

\* POST /register: register_user (the user, its role and profile rows, the
\* OTP, the token pair with its session row), then the endpoint's commit.
\* The account registers with the role Roles gives it.
Register(email, password, max) ==
    IF email \in DOMAIN users
    THEN /\ last' = Done("register", email, NULL,
                         ConflictError("Email " \o email \o " is already registered"))
         /\ UNCHANGED <<now, users, sessions, tokens, uuids, issued, rq, swept>>
    ELSE LET acct == [Account("PENDING_VERIFICATION", FALSE)
                        EXCEPT !.password_hash = hash_password(password)]
             data == [sub |-> email,
                      claims |-> [email_verified |-> FALSE,
                                  status |-> "PENDING_VERIFICATION",
                                  user_type |-> RoleOf(email),
                                  profile_complete |-> FALSE]]
             otp == uuids + 1
             jti == uuids + 2
             id == uuids + 3
             pair == [access |-> create_access_token(data, now),
                      refresh |-> create_refresh_token(data, jti, now)]
         IN /\ Len(sessions) < MaxSessions
            /\ Len(tokens) < max
            /\ users' = [u \in DOMAIN users \cup {email} |->
                            IF u = email THEN acct ELSE users[u]]
            /\ tokens' = create_verification_otp(tokens, email, otp, now)
            /\ sessions' = Append(sessions, SessionRow(id, email, jti, now))
            /\ uuids' = uuids + 3
            /\ issued' = issued \cup {pair}
            /\ last' = Done("register", email, jti, Ok)
            /\ UNCHANGED <<now, rq, swept>>

\* CandidateService.update_profile / EmployerService.update_profile with an
\* allowed field: the profile row is marked complete.
UpdateProfile(u) ==
    /\ users' = [users EXCEPT ![u].profile_complete = TRUE]
    /\ last' = Done("update_profile", u, NULL, Ok)
    /\ UNCHANGED <<now, sessions, tokens, uuids, issued, rq, swept>>

\* users.status written out of band (platform administration).
SetStatus(u, st) ==
    /\ users[u].status # st
    /\ users' = [users EXCEPT ![u].status = st]
    /\ last' = Done("set_status", u, NULL, Ok)
    /\ UNCHANGED <<now, sessions, tokens, uuids, issued, rq, swept>>

\* ----------------------------------------------- failures of the database
\* An exception that is no AppException passes the endpoint's handler; get_db
\* rolls the request's transaction back and general_exception_handler answers
\* 500 "Internal server error", without tokens.
ServerError(e) == [kind |-> e, msg |-> "Internal server error"]

\* _generate_otp: six random digits, a value no row holds or the value of a
\* row of tokens.
OtpDraws == {uuids + 1} \cup {tokens[i].token : i \in DOMAIN tokens}

\* AuthService.resend_verification_otp with the OTP drawn: tokens.token is
\* unique, so the flush of an OTP that a row holds raises IntegrityError and
\* the request is rolled back.
Resend(u, otp, max) ==
    LET res == IF u \notin DOMAIN users THEN AppException("User not found")
               ELSE IF users[u].email_verified
               THEN AppException("Email is already verified")
               ELSE IF \E i \in DOMAIN tokens : tokens[i].token = otp
               THEN ServerError("IntegrityError")
               ELSE Ok
    IN
    /\ IF res.kind # "ok" THEN UNCHANGED <<tokens, uuids>>
       ELSE /\ Len(tokens) < max
            /\ tokens' = create_verification_otp(tokens, u, otp, now)
            /\ uuids' = uuids + 1
    /\ last' = Done("resend_verification", u, NULL, res)
    /\ UNCHANGED <<now, users, sessions, issued, rq, swept>>

\* What the database does with a request: it serves it, it fails the flush
\* of the INSERT, or it fails the COMMIT.
DbOutcomes == {"up", "flush_fails", "commit_fails"}

\* Variant of the flush below in which the failure of the INSERT goes
\* unnoticed.
flush_unnoticed(rows, row, db) ==
    IF db = "flush_fails" \/ SelectByJti(rows, row.jti) # {}
    THEN [err |-> "none", rows |-> rows]
    ELSE [err |-> "none", rows |-> Append(rows, row)]

\* Variant of the flush below on a table without the unique index on jti.
flush_without_unique(rows, row, db) ==
    IF db = "flush_fails" THEN [err |-> "OperationalError", rows |-> rows]
    ELSE [err |-> "none", rows |-> Append(rows, row)]

\* db.add(session_row); await db.flush(): the INSERT under the unique index
\* on user_sessions.jti.  The result is the exception raised ("none" when
\* the row is in) and the table as the transaction sees it.
flush_session(rows, row, db) ==
    IF db = "flush_fails" THEN [err |-> "OperationalError", rows |-> rows]
    ELSE IF SelectByJti(rows, row.jti) # {}
    THEN [err |-> "IntegrityError", rows |-> rows]
    ELSE [err |-> "none", rows |-> Append(rows, row)]

\* uuid.uuid4() for a jti: a value never drawn so far or, with negligible
\* probability, the jti of a row of the table.
UuidDraws == {uuids + 1} \cup {sessions[i].jti : i \in DOMAIN sessions}

\* POST /login as Login above, with the value uuid4 draws for the jti and the
\* database's behaviour as inputs: login_user, the endpoint's db.commit()
\* before the response is built, and get_db's rollback when an exception
\* leaves the endpoint.
LoginDrawing(email, password, user_type, jti, db) ==
    LET chk == login_check(email, password, user_type)
        fc == fetch_user_claims(email)
        data == [sub |-> email, claims |-> fc.claims]
        pair == [access |-> create_access_token(data, now),
                 refresh |-> create_refresh_token(data, jti, now)]
        fl == flush_session(sessions, SessionRow(uuids + 2, email, jti, now), db)
        res == IF chk.kind # "ok" THEN chk
               ELSE IF fc.res.kind # "ok" THEN fc.res
               ELSE IF fl.err # "none" THEN ServerError(fl.err)
               ELSE IF db = "commit_fails" THEN ServerError("OperationalError")
               ELSE Ok
    IN
    IF res.kind # "ok"
    THEN /\ last' = Done("login", email, NULL, res)
         /\ UNCHANGED <<now, users, sessions, tokens, uuids, issued, rq, swept>>
    ELSE /\ Len(sessions) < MaxSessions
         /\ users[email].email_verified \/ Len(tokens) < MaxTokens
         /\ Binds(login_user_call)
         /\ sessions' = fl.rows
         /\ tokens' = IF users[email].email_verified THEN tokens
                      ELSE create_verification_otp(tokens, email, uuids + 3, now)
         /\ uuids' = IF users[email].email_verified THEN uuids + 2 ELSE uuids + 3
         /\ issued' = issued \cup {pair}
         /\ last' = Done("login", email, jti, Ok)
         /\ UNCHANGED <<now, users, rq, swept>>

\* POST /refresh, second half, when the database fails the lookup: execute
\* raises, "except Exception" turns it into "Failed to refresh token", the
\* endpoint answers with the error and get_db commits an empty transaction.
RefreshLookupDown(p) ==
    /\ rq[p].pc = "lookup"
    /\ rq' = [rq EXCEPT ![p] = Idle]
    /\ last' = [Done("refresh", rq[p].tok.sub, rq[p].tok.jti,
                     AuthenticationError("Failed to refresh token"))
                  EXCEPT !.raced = rq[p].raced]
    /\ UNCHANGED <<now, users, sessions, tokens, uuids, issued, swept>>

\* get_current_user: the bearer token of a request through
\* verify_access_token; no table is read.
GetCurrentUser(tok) ==
    LET v == verify_access_token(tok, now)
        res == IF v.kind # "ok" THEN v
               ELSE IF tok.sub = NoUser
               THEN AuthenticationError("Invalid token payload")
               ELSE Ok
    IN
    /\ last' = Done("get_current_user", tok.sub, tok.jti, res)
    /\ UNCHANGED <<now, users, sessions, tokens, uuids, issued, rq, swept>>

\* POST /refresh: the Set-Cookie header of the response for the outcome res.
\* On success _set_refresh_cookie sets the new refresh token; on an
\* AppException error_response builds a response without cookie header.
refresh_response_cookie(res) == IF res.kind = "ok" THEN "set" ELSE "none"

\* The refresh_token cookie the client holds after a response: replaced by
\* a Set-Cookie with a value, dropped by a deletion, kept otherwise.
CookieAfter(held, header, new) ==
    IF header = "set" THEN new ELSE IF header = "delete" THEN NoToken ELSE held

\* get_current_user as a dependency of an endpoint: the outcome the endpoint
\* starts from.
get_current_user(tok, t) ==
    LET v == verify_access_token(tok, t) IN
    IF v.kind # "ok" THEN v
    ELSE IF tok.sub = NoUser THEN AuthenticationError("Invalid token payload")
    ELSE Ok

\* ------------------------------------------------------- session_service
\* The columns of user_sessions.
UserSessionColumns ==
    {"id", "user_id", "jti", "device", "ip_address", "user_agent", "created_at",
     "expires_at", "revoked_at", "last_used_at"}

\* db.execute(update(UserSession).where(UserSession.id == id).values(col=val)):
\* the statement does not compile when col is no column of the table
\* (CompileError, "Unconsumed column names"); otherwise the rows that match
\* are written.
UpdateValuesById(rows, id, col, val) ==
    IF col \notin UserSessionColumns THEN [err |-> "CompileError", rows |-> rows]
    ELSE [err |-> "none",
          rows |-> [i \in DOMAIN rows |->
                      IF rows[i].id = id THEN [rows[i] EXCEPT ![col] = val] ELSE rows[i]]]

\* ... .where(UserSession.user_id == u).values(col=val)
UpdateValuesByUser(rows, u, col, val) ==
    IF col \notin UserSessionColumns THEN [err |-> "CompileError", rows |-> rows]
    ELSE [err |-> "none",
          rows |-> [i \in DOMAIN rows |->
                      IF rows[i].user_id = u THEN [rows[i] EXCEPT ![col] = val]
                      ELSE rows[i]]]

\* Variant of revoke_session_by_id below that sets revoked_at.
revoke_session_by_id_revoked_at(rows, session_id) ==
    UpdateValuesById(rows, session_id, "revoked_at", now)

\* session_service.revoke_session_by_id and revoke_all_user_sessions
revoke_session_by_id(rows, session_id) ==
    UpdateValuesById(rows, session_id, "is_revoked", TRUE)

revoke_all_user_sessions(rows, user_id) ==
    UpdateValuesByUser(rows, user_id, "is_revoked", TRUE)

\* The ids a caller can name: those of the rows, and one of no row.
SessionIds == {sessions[i].id : i \in DOMAIN sessions} \cup {0}

\* The jti of the row with the id (NULL when there is none).
JtiOfId(rows, id) ==
    IF \E i \in DOMAIN rows : rows[i].id = id
    THEN rows[CHOOSE i \in DOMAIN rows : rows[i].id = id].jti
    ELSE NULL

\* POST /sessions/{session_id}/revoke with the bearer token tok: an exception
\* of the update is no AppException, the endpoint lets it pass, get_db rolls
\* back and the answer is 500; otherwise get_db commits.
RevokeSession(tok, session_id) ==
    LET g == get_current_user(tok, now)
        up == revoke_session_by_id(sessions, session_id)
        res == IF g.kind # "ok" THEN g
               ELSE IF up.err # "none" THEN ServerError(up.err)
               ELSE Ok
    IN
    /\ sessions' = IF res.kind = "ok" THEN up.rows ELSE sessions
    /\ last' = Done("revoke_session", tok.sub, JtiOfId(sessions, session_id), res)
    /\ UNCHANGED <<now, users, tokens, uuids, issued, rq, swept>>

\* POST /logout-all with the bearer token tok
LogoutAll(tok) ==
    LET g == get_current_user(tok, now)
        up == revoke_all_user_sessions(sessions, tok.sub)
        res == IF g.kind # "ok" THEN g
               ELSE IF up.err # "none" THEN ServerError(up.err)
               ELSE Ok
    IN
    /\ sessions' = IF res.kind = "ok" THEN up.rows ELSE sessions
    /\ last' = Done("logout_all", tok.sub, NULL, res)
    /\ UNCHANGED <<now, users, tokens, uuids, issued, rq, swept>>

\* What a client can present: the tokens it was given, and tokens that are
\* not signed with SECRET_KEY (here: copies with a signature that fails).
AccessTokens == {pr.access : pr \in issued}
Forge(tok) == [tok EXCEPT !.sig = FALSE]
Presented ==
    RefreshTokens \cup AccessTokens \cup {Forge(tok) : tok \in RefreshTokens \cup AccessTokens}

TokenValues == {tokens[i].token : i \in DOMAIN tokens} \cup {0}

\* A login with the account's own role; Passwords holds the right password
\* of every account state the model reaches and a wrong one.
LoginAs(pws) == \E e \in Users, pw \in pws : Login(e, pw, RoleOf(e))

\* The session lifecycle with one Refresh request at a time.
Next ==
    \/ Tick
    \/ LoginAs({"pw1"})
    \/ \E tok \in RefreshTokens : RefreshBegin("p1", tok)
    \/ RefreshLookup("p1")
    \/ \E tok \in RefreshTokens : RevokeToken(tok)
    \/ \E u \in Users : RevokeAll(u)

Spec == Init /\ [][Next]_vars

\* Two Refresh requests at a time.
NextRace ==
    \/ Tick
    \/ LoginAs({"pw1"})
    \/ \E p \in Procs, tok \in RefreshTokens : RefreshBegin(p, tok)
    \/ \E p \in Procs : RefreshLookup(p)
    \/ \E tok \in RefreshTokens : RevokeToken(tok)

SpecRace == Init /\ [][NextRace]_vars

\* Password reset beside the session lifecycle, at one instant of the clock.
NextReset ==
    \/ LoginAs(Passwords)
    \/ \E tok \in RefreshTokens : RefreshBegin("p1", tok)
    \/ RefreshLookup("p1")
    \/ \E e \in Users : ForgotPassword(e)
    \/ \E tk \in TokenValues, pw \in Passwords : ResetPassword(tk, pw)

SpecReset == Init /\ [][NextReset]_vars

\* Issuance while the account's state changes, at one instant of the clock;
\* accounts start unverified.
InitClaims == InitWith({Account("PENDING_VERIFICATION", FALSE)})

NextClaims ==
    \/ LoginAs({"pw1"})
    \/ Login(NoUser, "pw1", "CANDIDATE")
    \/ \E tok \in RefreshTokens : RefreshBegin("p1", tok)
    \/ RefreshLookup("p1")
    \/ \E u \in Users, otp \in TokenValues : VerifyEmail(u, otp)
    \/ \E u \in Users : UpdateProfile(u)
    \/ \E u \in Users, st \in {"ACTIVE", "SUSPENDED", "DEACTIVATED"} : SetStatus(u, st)

SpecClaims == InitClaims /\ [][NextClaims]_vars

\* The session lifecycle on a database that may fail a request and with
\* uuid4 draws that may collide, at one instant of the clock.
NextFault ==
    \/ \E e \in Users, jti \in UuidDraws, db \in DbOutcomes :
          LoginDrawing(e, "pw1", RoleOf(e), jti, db)
    \/ \E tok \in RefreshTokens : RefreshBegin("p1", tok)
    \/ RefreshLookup("p1")
    \/ RefreshLookupDown("p1")
    \/ \E tok \in RefreshTokens : RevokeToken(tok)
    \/ \E u \in Users : RevokeAll(u)

SpecFault == Init /\ [][NextFault]_vars

\* The session lifecycle of one account with every token a client can
\* present, at any endpoint that takes a token.
NextVerify ==
    \/ Tick
    \/ Login("u1", "pw1", RoleOf("u1"))
    \/ \E tok \in Presented : RefreshBegin("p1", tok)
    \/ RefreshLookup("p1")
    \/ \E tok \in Presented : RevokeToken(tok)
    \/ RevokeAll("u1")
    \/ \E tok \in Presented : GetCurrentUser(tok)

SpecVerify == Init /\ [][NextVerify]_vars

\* login_user for every kind of account: with and without password, active,
\* suspended and deactivated, with one role and with both, and for an email
\* without account; every password and every role may be presented.
LoginUsers == Users \cup DualUsers

InitLogin ==
    InitOver(LoginUsers, {Account("ACTIVE", TRUE), Account("SUSPENDED", TRUE),
                          Account("DEACTIVATED", TRUE), OAuthAccount})

NextLogin ==
    \E e \in LoginUsers \cup {NoUser}, pw \in Passwords, t \in UserTypes : Login(e, pw, t)

SpecLogin == InitLogin /\ [][NextLogin]_vars

\* The session-management endpoints beside Login and Refresh, at one instant
\* of the clock.
NextSessions ==
    \/ LoginAs({"pw1"})
    \/ \E tok \in RefreshTokens : RefreshBegin("p1", tok)
    \/ RefreshLookup("p1")
    \/ \E tok \in AccessTokens, id \in SessionIds : RevokeSession(tok, id)
    \/ \E tok \in AccessTokens : LogoutAll(tok)

SpecSessions == Init /\ [][NextSessions]_vars

\* The state after the first Login of "u1" at time 0.
InitLoggedIn ==
    LET tp == create_token_pair_internal("u1", << >>, 0, 0) IN
    /\ now = 0
    /\ users = [u \in Users |-> Account("ACTIVE", TRUE)]
    /\ sessions = tp.rows
    /\ tokens = << >>
    /\ uuids = tp.uuids
    /\ issued = {tp.pair}
    /\ rq = [p \in Procs |-> Idle]
    /\ last = Done("login", "u1", tp.pair.refresh.jti, Ok)
    /\ swept = {}

\* Password reset on the clock, for users of whom one is logged in: reset
\* tokens are requested, superseded, used and left to expire.
NextResetClock ==
    \/ Tick
    \/ \E e \in Users : ForgotPasswordWithin(e, MaxTokens + 1)
    \/ \E tk \in TokenValues, pw \in Passwords : ResetPassword(tk, pw)

SpecResetClock == InitLoggedIn /\ [][NextResetClock]_vars

\* Registration and email verification on the clock, from an empty users
\* table: OTPs are created by register_user, login_user and
\* resend_verification_otp, superseded, used and left to expire.
MaxOtps == MaxTokens + 1

InitOtp == InitOver({}, {Account("PENDING_VERIFICATION", FALSE)})

NextOtp ==
    \/ Tick
    \/ \E e \in Users : Register(e, "pw1", MaxOtps)
    \/ \E e \in Users : LoginWithin(e, "pw1", RoleOf(e), MaxOtps)
    \/ \E u \in Users, otp \in OtpDraws : Resend(u, otp, MaxOtps)
    \/ \E u \in Users, otp \in TokenValues : VerifyEmail(u, otp)

SpecOtp == InitOtp /\ [][NextOtp]_vars

\* ------------------------------------------------------------ the claims
\* The session rows of a presented token, and what the claims say of them.
RowsOf(tok) == SelectByJti(sessions, tok.jti)
OwnerActive(u) == u \in DOMAIN users /\ users[u].status \notin {"SUSPENDED", "DEACTIVATED"}
Eligible(tok) ==
    \E i \in RowsOf(tok) : Valid(sessions[i], now) /\ OwnerActive(sessions[i].user_id)
Revoked(tok) == \E i \in RowsOf(tok) : sessions[i].revoked_at # NULL
Expired(tok) == \E i \in RowsOf(tok) : sessions[i].expires_at < now
NothingWritten == sessions' = sessions /\ issued' = issued /\ uuids' = uuids

\* C1: a Refresh whose presented token has a session row that is neither
\* revoked nor expired, and whose owner exists and is neither suspended nor
\* deactivated, succeeds and returns a new pair whose refresh jti has a
\* session row.
C1_RefreshOfValidTokenSucceeds ==
    [][(RefreshLookup("p1") /\ Eligible(rq["p1"].tok)) =>
          /\ last'.res.kind = "ok"
          /\ \E pr \in issued' \ issued :
                /\ pr.access.type = "access" /\ pr.refresh.type = "refresh"
                /\ SelectByJti(sessions', pr.refresh.jti) # {}]_vars

\* C2: every valid refresh token can be rotated, and the Refresh that rotates
\* it leaves the row of the new token's jti active (revoked_at null, not
\* expired) and the row of the presented token's jti revoked.
C2_RotationLeavesOneActive ==
    [][(RefreshLookup("p1") /\ Eligible(rq["p1"].tok)) =>
          /\ \A i \in RowsOf(rq["p1"].tok) : sessions'[i].revoked_at # NULL
          /\ \E i \in DOMAIN sessions' \ DOMAIN sessions :
                /\ Valid(sessions'[i], now')
                /\ \E pr \in issued' \ issued : pr.refresh.jti = sessions'[i].jti]_vars

\* C3: a Refresh whose presented token has a revoked session row fails with
\* the AuthenticationError "Refresh token revoked", creates no session row
\* and returns no token.
C3_RevokedTokenNotReusable ==
    [][(RefreshLookup("p1") /\ Revoked(rq["p1"].tok)) =>
          /\ last'.res = AuthenticationError("Refresh token revoked")
          /\ NothingWritten]_vars

\* A Refresh has just been refused because the row of its token, issued by a
\* Login, was revoked.
C3_Witness ==
    /\ last.op = "refresh"
    /\ last.res = AuthenticationError("Refresh token revoked")
    /\ \E pr \in issued : pr.refresh.jti = last.jti
    /\ \E i \in SelectByJti(sessions, last.jti) : sessions[i].revoked_at # NULL

\* C4: of two Refresh requests racing on one presented token, the one that
\* completes second (its lookup overlapped the other's, the other has
\* completed) observes the row revoked and fails with the AuthenticationError
\* "Refresh token revoked", unless the row has expired.
C4_RaceLoserObservesRevoked ==
    [][\A p \in Procs :
          (/\ RefreshLookup(p)
           /\ rq[p].raced
           /\ \A q \in Procs \ {p} : ~(rq[q].pc = "lookup" /\ rq[q].tok = rq[p].tok)
           /\ ~Expired(rq[p].tok))
          => /\ last'.res = AuthenticationError("Refresh token revoked")
             /\ NothingWritten]_vars

\* C5: a revocation (revoke_token, revoke_all_user_tokens) leaves revoked_at
\* of an already revoked row at the value the first revocation set.
C5_RevokedAtNotOverwritten ==
    [][((\E tok \in RefreshTokens : RevokeToken(tok)) \/ (\E u \in Users : RevokeAll(u))) =>
          \A i \in DOMAIN sessions :
              sessions[i].revoked_at # NULL =>
                  sessions'[i].revoked_at = sessions[i].revoked_at]_vars

C7_RevokeAllOnlyTargetOwner ==
    [][\A u \in Users :
          RevokeAll(u) =>
              \A i \in DOMAIN sessions :
                  sessions[i].user_id # u =>
                      /\ sessions'[i] = sessions[i]
                      /\ Valid(sessions[i], now) => Valid(sessions'[i], now')]_vars

\* revoke_all_user_tokens has just revoked a row of its user while a row of
\* another owner is still valid.
C7_Witness ==
    /\ last.op = "revoke_all"
    /\ \E i \in DOMAIN sessions :
          sessions[i].user_id = last.user /\ sessions[i].revoked_at = now
    /\ \E i \in DOMAIN sessions :
          sessions[i].user_id # last.user /\ Valid(sessions[i], now)

\* C8: once revoke_all_user_tokens(u) has run, a Refresh with a refresh token
\* that was issued to u before it is refused as revoked and writes nothing,
\* and a Login that succeeds afterwards creates a session row that is valid
\* and whose jti is none of the revoked ones.
C8_RevokeAllThenLogin ==
    [][/\ (RefreshLookup("p1") /\ rq["p1"].tok.jti \in swept) =>
              /\ last'.res = AuthenticationError("Refresh token revoked")
              /\ NothingWritten
       /\ \A e \in Users :
              (Login(e, "pw1", RoleOf(e)) /\ OwnerActive(e)) =>
                  /\ last'.res.kind = "ok"
                  /\ \E i \in DOMAIN sessions' \ DOMAIN sessions :
                        /\ sessions'[i].user_id = e
                        /\ sessions'[i].jti = last'.jti
                        /\ sessions'[i].jti \notin swept'
                        /\ Valid(sessions'[i], now')
                  /\ \A i \in DOMAIN sessions : sessions'[i] = sessions[i]]_vars

\* After revoke_all_user_tokens for a user, the user has logged in again, and
\* a Refresh with a token from before the revocation has just been refused
\* while the session of the new login is valid.
C8_Witness ==
    /\ last.op = "refresh"
    /\ last.jti \in swept
    /\ last.res = AuthenticationError("Refresh token revoked")
    /\ \E i \in DOMAIN sessions :
          /\ sessions[i].user_id = last.user
          /\ sessions[i].jti \notin swept
          /\ sessions[i].jti > last.jti
          /\ Valid(sessions[i], now)

\* C9: a reset_password that succeeds leaves no session row of the user
\* valid, and a Refresh with a refresh token issued to the user before the
\* reset is refused as revoked and writes nothing.
C9_ResetRevokesEverySession ==
    [][/\ ((\E tk \in TokenValues, pw \in Passwords : ResetPassword(tk, pw))
             /\ last'.res.kind = "ok") =>
              \A i \in DOMAIN sessions' :
                  sessions'[i].user_id = last'.user => ~Valid(sessions'[i], now')
       /\ (RefreshLookup("p1") /\ rq["p1"].tok.jti \in swept) =>
              /\ NothingWritten
              /\ last'.res = AuthenticationError("Refresh token revoked")]_vars

\* The user's password was reset (the reset token is used, the password is
\* the new one) and a Refresh with a token issued before the reset has just
\* been refused.
C9_Witness ==
    /\ last.op = "refresh"
    /\ last.jti \in swept
    /\ last.res.msg = "Refresh token revoked"
    /\ users[last.user].password_hash = hash_password("pw2")
    /\ \E i \in DOMAIN tokens :
          /\ tokens[i].user_id = last.user
          /\ tokens[i].type = "password_reset"
          /\ tokens[i].used_at # NULL

\* The claims that the stored state us holds of user u.
StoredClaims(us, u) ==
    [email_verified |-> us[u].email_verified, status |-> us[u].status,
     user_type |-> RoleOf(u), profile_complete |-> us[u].profile_complete]

\* C10: every token pair an issuance (Login, Refresh) returns carries, in both
\* tokens, the claims of the owner's stored state at that issuance, whatever
\* the claims of the pairs issued to the owner earlier.
C10_ClaimsRebuiltOnIssuance ==
    [][\A pr \in issued' \ issued :
          /\ pr.access.claims = StoredClaims(users', pr.access.sub)
          /\ pr.refresh.claims = StoredClaims(users', pr.refresh.sub)]_vars

\* A Login has just issued a pair to a user who holds an earlier pair with
\* other claims: a flag changed between the two issuances.
C10_Witness ==
    /\ last.op = "login"
    /\ last.res.kind = "ok"
    /\ \E new \in issued, old \in issued :
          /\ new.refresh.jti = last.jti
          /\ old.refresh.sub = new.refresh.sub
          /\ old.refresh.jti < new.refresh.jti
          /\ old.access.claims # new.access.claims
          /\ new.access.claims = StoredClaims(users, last.user)

\* C11: a Login whose INSERT of the session row fails (the database fails
\* the flush, or the jti collides with a row's) returns no token and leaves
\* no row; a Login whose COMMIT fails likewise; and every pair a Login
\* returns has the session row of its refresh jti in the table, owned by the
\* user it was issued to.
C11_LoginAllOrNothing ==
    [][\A e \in Users, jti \in UuidDraws, db \in DbOutcomes :
          LoginDrawing(e, "pw1", RoleOf(e), jti, db) =>
              /\ (db # "up" \/ SelectByJti(sessions, jti) # {}) =>
                    /\ last'.res.kind \notin {"ok"}
                    /\ issued' = issued
                    /\ sessions' = sessions
              /\ \A pr \in issued' \ issued :
                    \E i \in SelectByJti(sessions', pr.refresh.jti) :
                        sessions'[i].user_id = pr.refresh.sub]_vars

\* A Login of a user has just failed on the INSERT, and the user holds no
\* token and has no session row.
C11_Witness ==
    /\ last.op = "login"
    /\ last.res = ServerError("OperationalError")
    /\ {pr \in issued : pr.refresh.sub = last.user} = {}
    /\ JtisOf(sessions, last.user) = {}
    /\ \E pr \in issued : SelectByJti(sessions, pr.refresh.jti) # {}

C13_NewRowBeforeOldRevoked ==
    [][(RefreshLookup("p1") /\ Eligible(rq["p1"].tok)) =>
          \E i \in DOMAIN sessions' \ DOMAIN sessions :
              /\ sessions'[i].user_id = rq["p1"].tok.sub
              /\ \A j \in RowsOf(rq["p1"].tok) :
                    \/ sessions'[j].revoked_at = NULL
                    \/ sessions'[i].created_at <= sessions'[j].revoked_at
              /\ \/ Valid(sessions'[i], now')
                 \/ \E j \in RowsOf(rq["p1"].tok) : Valid(sessions'[j], now')]_vars

\* C14: a Refresh whose presented token fails the verification of the JWT
\* (signature, exp, type tag) fails with AuthenticationError before the
\* session lookup starts: a lookup starts only for a token that passes the
\* verification, and a Refresh that ends without a lookup ends in
\* AuthenticationError with the session table neither read nor written.
C14_CheapCheckFirst ==
    [][/\ (rq["p1"].pc = "idle" /\ rq'["p1"].pc = "lookup") =>
              /\ rq'["p1"].tok.sig
              /\ rq'["p1"].tok.exp >= NumericDate(now)
              /\ rq'["p1"].tok.type = "refresh"
       /\ (rq["p1"].pc = "idle" /\ last'.op = "refresh" /\ last' # last) =>
              /\ last'.res.kind = "AuthenticationError"
              /\ rq' = rq
              /\ NothingWritten]_vars

\* A Refresh has just been refused on its JWT although the session row of
\* the token's jti is valid: the token's signature failed.
C14_Witness ==
    /\ last.op = "refresh"
    /\ last.res = AuthenticationError("Invalid refresh token")
    /\ \A p \in Procs : rq[p].pc = "idle"
    /\ \E i \in SelectByJti(sessions, last.jti) : Valid(sessions[i], now)

\* C15: in every state no two session rows share a jti, and every refresh
\* token returned to a caller has exactly one session row with its jti, owned
\* by the user the token was issued to.
C15_JtiUniqueOneRowPerToken ==
    /\ \A i \in DOMAIN sessions, j \in DOMAIN sessions :
          sessions[i].jti = sessions[j].jti => i = j
    /\ \A pr \in issued :
          /\ Cardinality(SelectByJti(sessions, pr.refresh.jti)) = 1
          /\ \A i \in SelectByJti(sessions, pr.refresh.jti) :
                sessions[i].user_id = pr.refresh.sub

\* Two tokens have been returned, their rows are in the table, and a Login
\* whose uuid4 drew the jti of one of the rows has just been refused.
C15_Witness ==
    /\ Cardinality(issued) = 2
    /\ Len(sessions) = 2
    /\ last.op = "login"
    /\ last.res = ServerError("IntegrityError")

\* C16: no step of Login, Refresh, revoke_token or revoke_all_user_tokens
\* deletes a session row or changes the id, user_id, jti, created_at or
\* expires_at of an existing row; rows are only appended, and only
\* revoked_at and last_used_at of an existing row may change.
C16_SessionsAppendOnly ==
    [][/\ Len(sessions') >= Len(sessions)
       /\ \A i \in DOMAIN sessions :
             /\ sessions'[i].id = sessions[i].id
             /\ sessions'[i].user_id = sessions[i].user_id
             /\ sessions'[i].jti = sessions[i].jti
             /\ sessions'[i].created_at = sessions[i].created_at
             /\ sessions'[i].expires_at = sessions[i].expires_at]_vars

\* A row was revoked by revoke_token and is still in the table, unchanged but
\* for revoked_at, after a later Login appended another row.
C16_Witness ==
    /\ Len(sessions) = 2
    /\ last.op = "login"
    /\ last.jti = sessions[2].jti
    /\ sessions[1].revoked_at # NULL
    /\ sessions[1].jti \notin swept
    /\ sessions[1].expires_at = sessions[1].created_at + RefreshTTL

\* C17: get_current_user accepts an access token whose signature verifies,
\* whose exp has not passed and whose type tag is "access", whatever the
\* session table holds, and it leaves the table alone.
C17_AccessTokenStateless ==
    [][\A tok \in AccessTokens :
          (/\ tok.sig /\ tok.type = "access" /\ tok.exp >= NumericDate(now)
           /\ GetCurrentUser(tok)) =>
              /\ last'.res = Ok
              /\ NothingWritten]_vars

\* An access token has just been accepted although every session of its
\* owner, the one it was issued with included, was revoked by
\* revoke_all_user_tokens.
C17_Witness ==
    /\ last.op = "get_current_user"
    /\ last.res = Ok
    /\ JtisOf(sessions, last.user) # {}
    /\ JtisOf(sessions, last.user) \subseteq swept
    /\ \A i \in DOMAIN sessions :
          sessions[i].user_id = last.user => sessions[i].revoked_at # NULL

\* C18: get_current_user refuses every refresh token, and Refresh and
\* revoke_token refuse every access token, each on the AuthenticationError
\* of the verification (revoke_token answers False), so that no session
\* lookup is ever under way for an access token; verify_refresh_token
\* rejects every access token and verify_access_token every refresh token.
\* (An access token carries no jti, a refresh token does.)
C18_TokenTypesNotInterchangeable ==
    /\ (last.op = "get_current_user" /\ last.jti # NULL) =>
          last.res.kind = "AuthenticationError"
    /\ (last.op = "refresh" /\ last.jti = NULL) =>
          last.res.kind = "AuthenticationError"
    /\ (last.op = "revoke_token" /\ last.jti = NULL) => last.res = False
    /\ \A p \in Procs : rq[p].pc = "lookup" => rq[p].tok.type = "refresh"
    /\ \A tok \in Presented :
          /\ tok.type = "access" =>
                verify_refresh_token(tok, now).kind = "AuthenticationError"
          /\ tok.type = "refresh" =>
                verify_access_token(tok, now).kind = "AuthenticationError"

\* A refresh token that Refresh would still take (its signature verifies, its
\* session is valid) has just been refused by get_current_user for its type.
C18_Witness ==
    /\ last.op = "get_current_user"
    /\ last.res = AuthenticationError("Invalid token type")
    /\ \E tok \in RefreshTokens :
          /\ tok.jti = last.jti
          /\ verify_refresh_token(tok, now) = Ok
    /\ \E i \in SelectByJti(sessions, last.jti) : Valid(sessions[i], now)

\* C19: a Login for an email without account, or for an account that is
\* SUSPENDED or DEACTIVATED, fails with the AuthenticationError of
\* login_user's own check, and a Refresh for an owner who is SUSPENDED or
\* DEACTIVATED fails with AuthenticationError; neither returns a token nor
\* creates a session row.
C19_NoIssuanceForDisallowedPrincipal ==
    [][/\ \A e \in Users \cup {NoUser} :
             (/\ Login(e, "pw1", IF e \in Users THEN RoleOf(e) ELSE "CANDIDATE")
              /\ (e \in DOMAIN users => users[e].status \in {"SUSPENDED", "DEACTIVATED"})) =>
                 /\ last'.res.kind = "AuthenticationError"
                 /\ last'.res.msg =
                       IF e \notin DOMAIN users THEN "Invalid credentials"
                       ELSE IF users[e].status = "SUSPENDED"
                       THEN "Your account has been suspended. Please contact support."
                       ELSE "Your account has been deactivated."
                 /\ NothingWritten
       /\ (/\ RefreshLookup("p1")
           /\ ~OwnerActive(rq["p1"].tok.sub)) =>
              /\ last'.res.kind = "AuthenticationError"
              /\ NothingWritten]_vars

\* A user was suspended after a Login, and a Refresh with the still valid
\* refresh token of that Login has just been refused.
C19_Witness ==
    /\ last.op = "refresh"
    /\ last.res.kind = "AuthenticationError"
    /\ users[last.user].status = "SUSPENDED"
    /\ \E i \in SelectByJti(sessions, last.jti) : Valid(sessions[i], now)
    /\ \E pr \in issued : pr.refresh.jti = last.jti /\ pr.refresh.claims.status # "SUSPENDED"

\* C20: a Login with the right credentials whose uuid4 draws the jti of an
\* existing row does not fail: the insert is retried with a fresh jti and
\* the caller gets a pair whose refresh jti has its session row.
C20_JtiCollisionRetried ==
    [][\A e \in Users, jti \in UuidDraws :
          (/\ LoginDrawing(e, "pw1", RoleOf(e), jti, "up")
           /\ SelectByJti(sessions, jti) # {}) =>
              /\ last'.res.kind = "ok"
              /\ \E pr \in issued' \ issued :
                    /\ SelectByJti(sessions, pr.refresh.jti) = {}
                    /\ SelectByJti(sessions', pr.refresh.jti) # {}]_vars

\* C21: every failure of create_token_pair (the issuance of a Login), of
\* Refresh, of revoke_token and of revoke_all_user_tokens names a failure
\* kind of the application: no other exception leaves a core operation, a
\* failed Refresh is an AuthenticationError, and the revocations answer True
\* or False.
C21_EveryFailureNamesAKind ==
    [][/\ \A e \in Users, jti \in UuidDraws, db \in {"up", "flush_fails"} :
             LoginDrawing(e, "pw1", RoleOf(e), jti, db) =>
                 last'.res.kind \in AppExceptions \cup {"ok"}
       /\ last'.op = "refresh" => last'.res.kind \in {"ok", "AuthenticationError"}
       /\ last'.op \in {"revoke_token", "revoke_all"} => last'.res \in {Ok, False}]_vars

\* C22: a login_user that fails on the credentials fails in one way: for an
\* email without account and for an account of any kind (with or without
\* password, active, suspended or deactivated) presented with a password
\* that is not the account's, the outcome is the same AuthenticationError.
C22_LoginFailuresUniform ==
    [][\A e \in LoginUsers \cup {NoUser}, pw \in Passwords, t \in UserTypes :
          (/\ Login(e, pw, t)
           /\ (e \in DOMAIN users => ~verify_password(pw, users[e].password_hash))) =>
              last'.res = AuthenticationError("Invalid credentials")]_vars

\* C26: both tokens of a pair that login_user(user_type = T) returns carry
\* the user_type claim T, the role the user logged in as, also when the
\* user holds the other role as well; the claim is never null.
C26_UserTypeClaimIsLoginRole ==
    [][\A e \in LoginUsers, pw \in Passwords, t \in UserTypes :
          Login(e, pw, t) =>
              \A pr \in issued' \ issued :
                  /\ pr.access.claims.user_type = t
                  /\ pr.refresh.claims.user_type = t]_vars

\* C23: after POST /logout-all every session row of the caller has
\* revoked_at set, and after POST /sessions/{session_id}/revoke with the id
\* of a session of the caller that row has revoked_at set.
C23_SessionEndpointsRevoke ==
    [][/\ \A tok \in AccessTokens :
             LogoutAll(tok) =>
                 \A i \in DOMAIN sessions' :
                     sessions'[i].user_id = tok.sub => sessions'[i].revoked_at # NULL
       /\ \A tok \in AccessTokens, id \in SessionIds :
             RevokeSession(tok, id) =>
                 \A i \in DOMAIN sessions' :
                     (sessions'[i].id = id /\ sessions'[i].user_id = tok.sub) =>
                         sessions'[i].revoked_at # NULL]_vars

C25_FailedRefreshClearsCookie ==
    (last.op = "refresh" /\ last.res.kind # "ok") =>
        \A tok \in RefreshTokens :
            CookieAfter(tok, refresh_response_cookie(last.res), NoToken) = NoToken

\* C27: a Refresh on a valid session creates a session row, and every row
\* and every token it creates belongs to the owner of the session row of
\* the presented token.
C27_RotationPreservesOwner ==
    [][(RefreshLookup("p1") /\ Eligible(rq["p1"].tok)) =>
          \A j \in RowsOf(rq["p1"].tok) :
              /\ \E i \in DOMAIN sessions' \ DOMAIN sessions :
                    sessions'[i].user_id = sessions[j].user_id
              /\ \A i \in DOMAIN sessions' \ DOMAIN sessions :
                    sessions'[i].user_id = sessions[j].user_id
              /\ \A pr \in issued' \ issued :
                    /\ pr.refresh.sub = sessions[j].user_id
                    /\ pr.access.sub = sessions[j].user_id]_vars

\* C28: a Refresh whose presented token has a session row passes the checks
\* on the row (it is refused neither as revoked nor as expired) if and only
\* if the row is valid: revoked_at is null and expires_at > now.  A row with
\* expires_at = now is refused.
C28_AcceptanceIsValidity ==
    [][(RefreshLookup("p1") /\ RowsOf(rq["p1"].tok) # {}) =>
          \A i \in RowsOf(rq["p1"].tok) :
              /\ session_checks(sessions, RowsOf(rq["p1"].tok), now) = Ok
                    <=> Valid(sessions[i], now)
              /\ last'.res.msg \in {"Refresh token revoked", "Refresh token expired"}
                    <=> ~Valid(sessions[i], now)]_vars

\* The rows of tokens with the value, and the unused rows of a type a user has.
ResetRows(tk) ==
    {i \in DOMAIN tokens : tokens[i].token = tk /\ tokens[i].type = "password_reset"}
Unused(rows, u, type) ==
    {i \in DOMAIN rows :
        rows[i].user_id = u /\ rows[i].type = type /\ rows[i].used_at = NULL}

\* C29: reset_password succeeds at most once for a token: it succeeds only
\* for a token that is stored, unused and not expired, and marks it used for
\* good; a call with a token that is unknown, expired or used fails with an
\* AppException and leaves the users, the tokens and the sessions as they
\* were; and no user ever has more than one unused password_reset token.
C29_ResetTokenSingleUse ==
    [][/\ \A tk \in TokenValues, pw \in Passwords :
             ResetPassword(tk, pw) =>
                 /\ last'.res.kind = "ok" =>
                       \A i \in ResetRows(tk) :
                           /\ tokens[i].used_at = NULL
                           /\ tokens[i].expires_at >= now
                           /\ tokens'[i].used_at # NULL
                 /\ (\/ ResetRows(tk) = {}
                     \/ \E i \in ResetRows(tk) :
                           tokens[i].used_at # NULL \/ tokens[i].expires_at < now) =>
                       /\ last'.res.kind = "AppException"
                       /\ users' = users /\ tokens' = tokens /\ sessions' = sessions
       /\ \A i \in DOMAIN tokens :
             /\ tokens'[i].token = tokens[i].token
             /\ tokens[i].used_at # NULL => tokens'[i].used_at = tokens[i].used_at
       /\ \A u \in Users : Cardinality(Unused(tokens', u, "password_reset")) <= 1]_vars

\* A reset_password with a token that was used before has just been refused:
\* the password is still the one the first use set, and the user holds a
\* newer, unused reset token.
C29_Witness ==
    /\ last.op = "reset_password"
    /\ last.res = AppException("Reset token has already been used")
    /\ \E i \in DOMAIN tokens, j \in DOMAIN tokens :
          /\ i < j
          /\ tokens[i].type = "password_reset"
          /\ tokens[i].used_at # NULL
          /\ tokens[j].user_id = tokens[i].user_id
          /\ Unused(tokens, tokens[i].user_id, "password_reset") = {j}
          /\ users[tokens[i].user_id].password_hash = hash_password("pw2")

\* The email_verification rows of a user with the value otp.
OtpRows(u, otp) ==
    {i \in DOMAIN tokens :
        /\ tokens[i].user_id = u /\ tokens[i].token = otp
        /\ tokens[i].type = "email_verification"}
\* A newer email_verification row of the same user exists.
Superseded(i) ==
    \E j \in DOMAIN tokens :
        /\ j > i /\ tokens[j].user_id = tokens[i].user_id
        /\ tokens[j].type = "email_verification"

\* C30: no user ever has more than one unused email_verification token;
\* verify_email_with_otp with an OTP that is unknown, superseded by a newer
\* one, expired or used fails and leaves the users as they were; it succeeds
\* only for a user who is not verified yet, and a verified email stays
\* verified, so it succeeds at most once per user.
C30_OtpSingleUse ==
    [][/\ \A u \in Users :
             Cardinality(Unused(tokens', u, "email_verification")) <= 1
       /\ \A u \in Users, otp \in TokenValues :
             VerifyEmail(u, otp) =>
                 /\ (\A i \in OtpRows(u, otp) :
                        \/ Superseded(i)
                        \/ tokens[i].used_at # NULL
                        \/ tokens[i].expires_at < now) =>
                       /\ last'.res.kind = "AppException"
                       /\ users' = users
                 /\ last'.res.kind = "ok" =>
                       /\ ~users[u].email_verified
                       /\ users'[u].email_verified
                 /\ last'.res.kind # "ok" => users' = users
       /\ \A u \in DOMAIN users :
             users[u].email_verified => users'[u].email_verified]_vars

\* A user verified the email with the newest OTP after an older one was
\* superseded, and a further verify_email_with_otp has just been refused.
C30_Witness ==
    /\ last.op = "verify_email"
    /\ last.res = AppException("Email is already verified")
    /\ users[last.user].status = "ACTIVE"
    /\ \E i \in DOMAIN tokens, j \in DOMAIN tokens :
          /\ i < j
          /\ tokens[i].user_id = last.user /\ tokens[j].user_id = last.user
          /\ tokens[i].type = "email_verification"
          /\ tokens[j].type = "email_verification"
          /\ tokens[i].used_at # NULL /\ tokens[j].used_at # NULL
          /\ tokens[i].used_at <= tokens[j].created_at
====
